---- MODULE Spec2Model ----
(***************************************************************************)
(* Model of blissart::nmf::Deconvolver (src/LibNMF/Deconvolver.cpp): the   *)
(* NMF / NMD engine with its six multiplicative update drivers, the        *)
(* convergence check, the post-normalization and the progress reporting.   *)
(*                                                                         *)
(* Numbers.  A C++ double is modelled as a triple <<n, d, k>>:             *)
(*   d > 0   the finite value (n/d) * 10^k, n/d in lowest terms and k as   *)
(*           close to 0 as 32-bit integers allow;                         *)
(*   <<1,0,0>> +Inf, <<-1,0,0>> -Inf, <<0,0,0>> NaN.                       *)
(* The arithmetic follows IEEE-754 for the special values (x/0 = +-Inf,    *)
(* 0/0 = NaN, 0*Inf = NaN, Inf-Inf = NaN, comparisons with NaN are false). *)
(* A finite result is exact whenever its numerator and denominator fit;    *)
(* otherwise the operands are rounded to about three significant digits    *)
(* first (a double rounds too, at 53 bits).  Results beyond 10^+-308       *)
(* overflow to +-Inf or underflow to 0.  Square roots are exact on perfect *)
(* squares and rounded down otherwise.                                     *)
(* Matrices are functions indexed from 0, as in the source.                *)
(***************************************************************************)
EXTENDS Integers, Sequences, FiniteSets, TLC

\* ------------------------------------------------------------------------
\* double arithmetic
\* ------------------------------------------------------------------------
IntLimit == 2147483646 + 1
ExpLimit == 300 + 8
CoarseLimit == 1000 + 24

Abs(x) == IF x < 0 THEN -x ELSE x
Sgn(x) == IF x > 0 THEN 1 ELSE IF x < 0 THEN -1 ELSE 0

RECURSIVE Gcd(_, _)
Gcd(a, b) == IF b = 0 THEN a ELSE Gcd(b, a % b)

RECURSIVE Pow10(_)
Pow10(e) == IF e = 0 THEN 1 ELSE 10 * Pow10(e - 1)

\* saturating integer product and sum: +-IntLimit marks "does not fit"
SatMul(a, b) ==
    IF a = 0 \/ b = 0 THEN 0
    ELSE IF Abs(a) >= IntLimit \/ Abs(b) >= IntLimit
            \/ Abs(a) > IntLimit \div Abs(b) THEN Sgn(a) * Sgn(b) * IntLimit
    ELSE a * b
SatAdd(a, b) ==
    IF Abs(a) >= IntLimit THEN a
    ELSE IF Abs(b) >= IntLimit THEN b
    ELSE IF a > 0 /\ b > 0 /\ a > IntLimit - b THEN IntLimit
    ELSE IF a < 0 /\ b < 0 /\ a < (-IntLimit) - b THEN -IntLimit
    ELSE a + b
Fits(n) == Abs(n) < IntLimit

NaN == <<0, 0, 0>>
PInf == <<1, 0, 0>>
Zero == <<0, 1, 0>>
One == <<1, 1, 0>>
IsFinite(x) == x[2] > 0

\* move the exponent k of (n/d) * 10^k towards 0 as far as n and d fit
RECURSIVE Absorb(_, _, _)
Absorb(n, d, k) ==
    IF k > 0 THEN
        IF Fits(SatMul(n, 10 \div Gcd(d, 10)))
        THEN Absorb(SatMul(n, 10 \div Gcd(d, 10)), d \div Gcd(d, 10), k - 1)
        ELSE <<n, d, k>>
    ELSE IF k < 0 THEN
        IF Fits(SatMul(d, 10 \div Gcd(Abs(n), 10)))
        THEN Absorb(n \div Gcd(Abs(n), 10), SatMul(d, 10 \div Gcd(Abs(n), 10)), k + 1)
        ELSE <<n, d, k>>
    ELSE <<n, d, k>>

\* r, or the overflow (to the infinity of sign s) or underflow of its exponent
Ranged(s, r) ==
    IF r[3] > ExpLimit THEN <<s, 0, 0>>
    ELSE IF r[3] < -ExpLimit THEN Zero
    ELSE r

\* the double (n/d) * 10^k, for 0 < d and n, d that fit
Fin(n, d, k) ==
    IF n = 0 THEN Zero
    ELSE Ranged(Sgn(n),
                Absorb(n \div Gcd(Abs(n), d), d \div Gcd(Abs(n), d), k))
FinOf(t) == Fin(t[1], t[2], t[3])

Rat(n, d) == Fin(n, d, 0)

\* x with its mantissa brought into [1, 10)
RECURSIVE Balance(_, _, _)
Balance(n, d, k) ==
    IF Abs(n) \div 10 >= d THEN
        IF d < IntLimit \div 10 THEN Balance(n, d * 10, k + 1)
        ELSE Balance(Sgn(n) * (Abs(n) \div 10), d, k + 1)
    ELSE IF Abs(n) < d THEN
        IF Abs(n) < IntLimit \div 10 THEN Balance(n * 10, d, k - 1)
        ELSE Balance(n, d \div 10, k - 1)
    ELSE <<n, d, k>>

\* (n/d) * 10^k with n/d in lowest terms
Lowest(n, d, k) ==
    <<Sgn(n) * (Abs(n) \div Gcd(Abs(n), d)), d \div Gcd(Abs(n), d), k>>
\* the balanced b with numerator and denominator cut down by the factor s
Scaled(b, s) == Lowest(Sgn(b[1]) * (Abs(b[1]) \div s), b[2] \div s, b[3])
Rounded(b) ==
    Scaled(b, (IF Abs(b[1]) > b[2] THEN Abs(b[1]) ELSE b[2])
                  \div (10 * CoarseLimit) + 1)

\* a finite non-zero x rounded to about three significant digits:
\* mantissa in [1, 10) with numerator and denominator below 10 * CoarseLimit
Coarse(x) == Rounded(Balance(x[1], x[2], x[3]))

Int2Dbl(n) == <<n, 1, 0>>

Neg(x) == <<-x[1], x[2], x[3]>>

MulExact(x, y) ==
    <<SatMul(x[1] \div Gcd(Abs(x[1]), y[2]), y[1] \div Gcd(Abs(y[1]), x[2])),
      SatMul(x[2] \div Gcd(Abs(y[1]), x[2]), y[2] \div Gcd(Abs(x[1]), y[2])),
      x[3] + y[3]>>
\* the exact product e of x and y if it fits, else the product of the
\* rounded operands
MulRound(x, y, e) ==
    FinOf(IF Fits(e[1]) /\ Fits(e[2]) THEN e
          ELSE MulExact(Coarse(x), Coarse(y)))

Mul(x, y) ==
    IF x[2] = 0 \/ y[2] = 0 THEN <<Sgn(x[1]) * Sgn(y[1]), 0, 0>>
    ELSE IF x[1] = 0 \/ y[1] = 0 THEN Zero
    ELSE MulRound(x, y, MulExact(x, y))

\* 1/x; 1/0 = +Inf (the zero of the model is +0)
Inv(x) ==
    IF x[1] > 0 THEN <<x[2], x[1], -x[3]>>
    ELSE IF x[1] < 0 THEN <<-x[2], -x[1], -x[3]>>
    ELSE IF x[2] > 0 THEN PInf ELSE NaN

Div(x, y) == Mul(x, Inv(y))

\* <<nn, dd, k>> if xn, dd and nn fit, else <<_, IntLimit, _>>
AddChecked(xn, dd, nn, k) ==
    IF Fits(xn) /\ Fits(dd) /\ Fits(nn) THEN <<nn, dd, k>>
    ELSE <<0, IntLimit, 0>>
\* x + y, xn being the numerator of x at the exponent of y and g the common
\* factor of the denominators
AddScaled(x, y, xn, g) ==
    AddChecked(xn, SatMul(x[2], y[2] \div g),
               SatAdd(SatMul(xn, y[2] \div g), SatMul(y[1], x[2] \div g)),
               y[3])
\* x + y for finite non-zero x, y with x[3] >= y[3]; <<_, IntLimit, _>> if
\* some intermediate value does not fit
AddExact(x, y) ==
    AddScaled(x, y,
              IF x[3] - y[3] > 9 THEN IntLimit
              ELSE SatMul(x[1], Pow10(x[3] - y[3])),
              Gcd(x[2], y[2]))
AddOrdered(x, y) ==
    AddExact(IF x[3] >= y[3] THEN x ELSE y, IF x[3] >= y[3] THEN y ELSE x)

\* x + y from the rounded operands cx and cy
AddRounded(x, y, cx, cy) ==
    IF cx[3] - cy[3] > 2 THEN x
    ELSE IF cy[3] - cx[3] > 2 THEN y
    ELSE FinOf(AddOrdered(cx, cy))
AddCoarse(x, y) == AddRounded(x, y, Coarse(x), Coarse(y))
\* the exact sum r of x and y if it fits, else the sum of the rounded operands
AddRound(x, y, r) == IF Fits(r[2]) THEN FinOf(r) ELSE AddCoarse(x, y)

Add(x, y) ==
    IF x[2] = 0 /\ y[2] = 0 THEN (IF x = y THEN x ELSE NaN)
    ELSE IF x[2] = 0 THEN x
    ELSE IF y[2] = 0 THEN y
    ELSE IF x[1] = 0 THEN y
    ELSE IF y[1] = 0 THEN x
    ELSE AddRound(x, y, AddOrdered(x, y))

Sub(x, y) == Add(x, Neg(y))

\* comparisons of doubles: every comparison with NaN is false
Lt(x, y) == Sub(x, y)[1] < 0
Le0(x) == x[1] < 0 \/ (x[1] = 0 /\ x[2] > 0)
Eq0(x) == x[1] = 0 /\ x[2] > 0
Ge0(x) == x[1] > 0 \/ (x[1] = 0 /\ x[2] > 0)
Gt0(x) == x[1] > 0

RECURSIVE IsqrtIter(_, _)
IsqrtIter(n, x) ==
    IF (x + n \div x) \div 2 >= x THEN x
    ELSE IsqrtIter(n, (x + n \div x) \div 2)
\* floor of the square root of n >= 0
Isqrt(n) == IF n < 2 THEN n ELSE IsqrtIter(n, IF n < 46341 THEN n ELSE 46341)
IsSquare(n) == Isqrt(n) * Isqrt(n) = n

\* c with an even exponent
EvenExp(c) == IF c[3] % 2 = 0 THEN c ELSE <<c[1] * 10, c[2], c[3] - 1>>
\* the root of h * 10^k, h rounded and h[3] + k even
SqrtCoarse(h, k) ==
    IF Fits(SatMul(h[1] * h[2], 256))
    THEN <<Isqrt(h[1] * h[2] * 256), h[2] * 16, (h[3] + k) \div 2>>
    ELSE <<Isqrt(h[1] * h[2]), h[2], (h[3] + k) \div 2>>

\* sqrt of (n/d) * 10^k for n, d > 0 and even k
SqrtEven(n, d, k) ==
    FinOf(IF IsSquare(n) /\ IsSquare(d) THEN <<Isqrt(n), Isqrt(d), k \div 2>>
          ELSE IF Fits(SatMul(SatMul(n, d), 256)) /\ Fits(SatMul(d, 16))
          THEN <<Isqrt(SatMul(SatMul(n, d), 256)), d * 16, k \div 2>>
          ELSE SqrtCoarse(EvenExp(Coarse(<<n, d, 0>>)), k))
\* c, of odd exponent, with one factor 10 moved into the mantissa
OddToEven(c) ==
    <<c[1] * (10 \div Gcd(c[2], 10)), c[2] \div Gcd(c[2], 10), c[3] - 1>>
SqrtOf(c) == SqrtEven(c[1], c[2], c[3])

\* sqrt(): exact on perfect squares, otherwise rounded down
Sqrt(x) ==
    IF x[2] = 0 THEN (IF x[1] > 0 THEN PInf ELSE NaN)
    ELSE IF x[1] < 0 THEN NaN
    ELSE IF x[1] = 0 THEN Zero
    ELSE SqrtOf(IF x[3] % 2 = 0 THEN x
                ELSE OddToEven(IF Fits(SatMul(x[1], 10)) THEN x ELSE Coarse(x)))

\* ------------------------------------------------------------------------
\* bounds of the model
\* ------------------------------------------------------------------------
M == 2
R == 2
N == 2
MaxT == 2
MaxSteps == 2
MaxCalls == 2
MaxSetup == 1

\* ------------------------------------------------------------------------
\* matrices (linalg::Matrix, row-major, indices from 0)
\* ------------------------------------------------------------------------
Null == <<>>
\* no string: no driver selected, no exception thrown
None == "none"

\* a matrix given by its elements; the comparison makes TLC evaluate it once
Force(f) == IF f = f THEN f ELSE f
Mat(rows, cols, F(_, _)) ==
    Force([i \in 0..(rows - 1) |-> [j \in 0..(cols - 1) |-> F(i, j)]])
Vec(len, F(_)) == Force([i \in 0..(len - 1) |-> F(i)])
\* the elements of the matrix A, of the vector v
Elements(A, rows, cols) == {A[i][j] : i \in 0..(rows - 1), j \in 0..(cols - 1)}
Entries(v, len) == {v[i] : i \in 0..(len - 1)}

\* f[lo] + ... + f[hi], accumulated left to right
RECURSIVE SumFn(_, _, _)
SumFn(f, lo, hi) == IF lo > hi THEN Zero ELSE Add(SumFn(f, lo, hi - 1), f[hi])
SumOf(len, F(_)) == SumFn([l \in 0..(len - 1) |-> F(l)], 0, len - 1)

\* Matrix::multWithMatrix(other, target, transpose, transposeOther, m, k, n,
\*     rowOffset, colOffset, rowOffsetOther, colOffsetOther, ...):
\* the m x n block  sum_l a(rowOffset+i, colOffset+l) * b(rowOffsetOther+l,
\* colOffsetOther+j), a and b being the operands after the optional transpose
Gemm(A, B, tA, tB, m, k, n, ra, ca, rb, cb) ==
    Mat(m, n, LAMBDA i, j :
        SumOf(k, LAMBDA l :
            Mul(IF tA THEN A[ca + l][ra + i] ELSE A[ra + i][ca + l],
                IF tB THEN B[cb + j][rb + l] ELSE B[rb + l][cb + j])))

MatAdd(A, B, rows, cols) ==
    Mat(rows, cols, LAMBDA i, j : Add(A[i][j], B[i][j]))
MatSub(A, B, rows, cols) ==
    Mat(rows, cols, LAMBDA i, j : Sub(A[i][j], B[i][j]))
ZeroMat(rows, cols) == Mat(rows, cols, LAMBDA i, j : Zero)

\* Matrix::frobeniusNorm
FrobeniusNorm(A, rows, cols) ==
    Sqrt(SumOf(rows, LAMBDA i : SumOf(cols, LAMBDA j : Mul(A[i][j], A[i][j]))))
RowSum(A, i, cols) == SumOf(cols, LAMBDA j : A[i][j])
ColSum(A, j, rows) == SumOf(rows, LAMBDA i : A[i][j])
DotRowRow(A, i, B, k, cols) == SumOf(cols, LAMBDA j : Mul(A[i][j], B[k][j]))
DotColCol(A, j, B, k, rows) == SumOf(rows, LAMBDA i : Mul(A[i][j], B[i][k]))

\* ------------------------------------------------------------------------
\* the engine
\* ------------------------------------------------------------------------
DIVISOR_FLOOR == Rat(1, 1000 * 1000 * 1000)

CostFunctions ==
    {"EuclideanDistance", "KLDivergence", "EuclideanDistanceSparse",
     "KLDivergenceSparse", "EuclideanDistanceSparseNormalized",
     "KLDivergenceContinuous"}

VARIABLES
    V, W, H, S, C,            \* _v, _w[0.._t), _h, _s, _c
    approx, oldApprox,        \* _approx, _oldApprox (Null: the 0 pointer)
    wConstant, wColConstant, normalizeMatrices,
    T, numSteps, absoluteError, relativeError, vFrob, notificationDelay,
    pc,                       \* "idle", or "loop": inside a driver's while loop
    cf,                       \* the cost function of the last decompose call
    maxSteps, eps, observer,  \* the other arguments of the last call that ran
    progress,                 \* the values the observer received in the last call
    error,                    \* what() of the exception decompose threw, or None
    zeta,                     \* zeta of the last convergence check (Null: none)
    divisors,                 \* the divisors of the last iteration's updates
    wEntry, hEntry,           \* W and H when the running decompose was called
    calls,                    \* decompose calls made so far
    plan,                     \* decompose calls the caller makes in all
    scratch                   \* the shape the function-local static matrices
                              \* were constructed with (Null: not constructed)

engine == <<V, W, H, S, C, approx, oldApprox, wConstant, wColConstant,
            normalizeMatrices, T, numSteps, absoluteError, relativeError,
            vFrob, notificationDelay>>
call == <<pc, cf, maxSteps, eps, observer, progress, error, zeta, divisors,
          wEntry, hEntry, calls, plan>>
vars == <<engine, call, scratch>>

\* the columns of W that are not constant
FreeColumns == {k \in 0..(R - 1) : ~wColConstant[k]}

\* the divisor guard of the update loops: if (denom <= 0.0) denom = DIVISOR_FLOOR
Floored(denom) == IF Le0(denom) THEN DIVISOR_FLOOR ELSE denom
\* A, and A + B, with the divisor guard on every element
FlooredMat(A, rows, cols) == Mat(rows, cols, LAMBDA i, j : Floored(A[i][j]))
FlooredSum(A, B, rows, cols) ==
    Mat(rows, cols, LAMBDA i, j : Floored(Add(A[i][j], B[i][j])))

\* a faulty update of a matrix: the division by denom is left out
UpdatedUndivided(X, num, denom, rows, cols) ==
    Mat(rows, cols, LAMBDA i, j : Mul(X[i][j], num[i][j]))

\* the multiplicative update x(i, j) *= num(i, j) / denom(i, j) of a matrix
\* and, for W, of its columns that are not constant
Updated(X, num, denom, rows, cols) ==
    Mat(rows, cols, LAMBDA i, j : Mul(X[i][j], Div(num[i][j], denom[i][j])))
UpdatedColumns(Wm, num, denom) ==
    Mat(M, R, LAMBDA i, j :
        IF wColConstant[j] THEN Wm[i][j]
        ELSE Mul(Wm[i][j], Div(num[i][j], denom[i][j])))
\* the same with one divisor for each column
ScaledColumns(Wm, num, colDenom) ==
    Mat(M, R, LAMBDA i, j :
        IF wColConstant[j] THEN Wm[i][j]
        ELSE Mul(Wm[i][j], Div(num[i][j], colDenom[j])))

\* Matrix::elementWiseDivision
ElementWiseDivision(A, B, rows, cols) ==
    Mat(rows, cols, LAMBDA i, j : Div(A[i][j], B[i][j]))

\* Matrix::multWithTransposedMatrix: A * B^T, A rows x inner, B cols x inner
MultWithTransposedMatrix(A, B, rows, inner, cols) ==
    Gemm(A, B, FALSE, TRUE, rows, inner, cols, 0, 0, 0, 0)

\* Matrix::shiftColumnsRight: one column to the right, zeros in column 0
ShiftColumnsRight(A, rows, cols) ==
    Mat(rows, cols, LAMBDA i, j : IF j = 0 THEN Zero ELSE A[i][j - 1])

\* the default of ensureNonnegativity's parameter epsilon
ENSURE_EPSILON == Rat(1, 1000 * 1000 * 1000)

EnsureNonnegativity(m, epsilon) ==
    Mat(M, N, LAMBDA i, j : IF Le0(m[i][j]) THEN epsilon ELSE m[i][j])

\* the M x (N - p) product block in columns p.. of an M x N matrix of zeros
ShiftedBlock(block, p) ==
    Mat(M, N, LAMBDA i, j : IF j < p THEN Zero ELSE block[i][j - p])

\* computeWpH(p, wpH): W[p] * (H shifted p columns to the right)
ComputeWpH(Wf, Hm, p) ==
    ShiftedBlock(Gemm(Wf[p], Hm, FALSE, FALSE, M, R, N - p, 0, 0, 0, 0), p)

RECURSIVE SumWpH(_, _, _)
SumWpH(Wf, Hm, p) ==
    IF p < 0 THEN ZeroMat(M, N)
    ELSE MatAdd(SumWpH(Wf, Hm, p - 1), ComputeWpH(Wf, Hm, p), M, N)

ComputeApprox(Wf, Hm) ==
    IF T = 1 THEN Gemm(Wf[0], Hm, FALSE, FALSE, M, R, N, 0, 0, 0, 0)
    ELSE SumWpH(Wf, Hm, T - 1)

\* zeta = approxDiff.frobeniusNorm() / _oldApprox->frobeniusNorm(), a2
\* being _approx
Zeta(a2) ==
    Div(FrobeniusNorm(MatSub(a2, oldApprox, M, N), M, N),
        FrobeniusNorm(oldApprox, M, N))

\* a faulty comparison: zeta < eps inverted
ComparedInverted(e, a2, z) ==
    [converged |-> ~Lt(z, e), approx |-> a2, oldApprox |-> a2, zeta |-> z]

\* converged = zeta < eps; *_oldApprox = _approx
Compared(e, a2, z) ==
    [converged |-> Lt(z, e), approx |-> a2, oldApprox |-> a2, zeta |-> z]

\* checkConvergence for eps > 0, a2 being _approx after the computeApprox
\* that doComputeApprox asks for
CheckAgainstOld(e, a2) ==
    IF oldApprox = Null
    THEN [converged |-> FALSE, approx |-> a2, oldApprox |-> a2, zeta |-> zeta]
    ELSE Compared(e, a2, Zeta(a2))

\* checkConvergence(eps, doComputeApprox) on the approximation a:
\* the result, and _approx, _oldApprox and zeta after the call
CheckConvergence(e, doComputeApprox, a) ==
    IF Le0(e) THEN
        [converged |-> FALSE, approx |-> a, oldApprox |-> oldApprox, zeta |-> zeta]
    ELSE CheckAgainstOld(e, IF doComputeApprox THEN ComputeApprox(W, H) ELSE a)

\* a faulty nextItStep: the observer is called after every iteration
NextItStepEveryStep(obs, maxS) ==
    LET n == numSteps + 1
    IN  [numSteps |-> n,
         progress |-> IF obs
                      THEN Append(progress, Div(Int2Dbl(n), Int2Dbl(maxS)))
                      ELSE progress]

\* a faulty nextItStep: the step is counted only when an observer is given
NextItStepCountsObserved(obs, maxS) ==
    LET n == IF obs THEN numSteps + 1 ELSE numSteps
    IN  [numSteps |-> n,
         progress |-> IF obs /\ n % notificationDelay = 0
                      THEN Append(progress, Div(Int2Dbl(n), Int2Dbl(maxS)))
                      ELSE progress]

\* nextItStep(observer, maxSteps): _numSteps and the observer's log after it
NextItStep(obs, maxS) ==
    LET n == numSteps + 1
    IN  [numSteps |-> n,
         progress |-> IF obs /\ n % notificationDelay = 0
                      THEN Append(progress, Div(Int2Dbl(n), Int2Dbl(maxS)))
                      ELSE progress]

\* the update loop of factorizeNMFEDWUpdate, the denominator guarded
NMFEDWApply(Wm, wUpdateMatrixNum, denom) ==
    [W |-> UpdatedColumns(Wm, wUpdateMatrixNum, denom),
     divs |-> {denom[i][j] : i \in 0..(M - 1), j \in FreeColumns}]

\* factorizeNMFEDWUpdate(w)
FactorizeNMFEDWUpdate(Wm) ==
    IF wConstant THEN [W |-> Wm, divs |-> {}]
    ELSE NMFEDWApply(Wm, MultWithTransposedMatrix(V, H, M, N, R),
                     FlooredMat(Gemm(Wm, MultWithTransposedMatrix(H, H, R, N, R),
                                     FALSE, FALSE, M, R, R, 0, 0, 0, 0),
                                M, R))

\* calculateNMFEDHUpdate(num, denom)
CalculateNMFEDHUpdate(Wm, Hm) ==
    [num |-> Gemm(Wm, V, TRUE, FALSE, R, M, N, 0, 0, 0, 0),
     denom |-> Gemm(Gemm(Wm, Wm, TRUE, FALSE, R, M, R, 0, 0, 0, 0), Hm,
                    FALSE, FALSE, R, R, N, 0, 0, 0, 0)]

\* the outcome of a loop head that runs the convergence check k
Checked(k) ==
    [go |-> ~k.converged, approx |-> k.approx, oldApprox |-> k.oldApprox,
     zeta |-> k.zeta]
\* the outcome of a loop head at maxSteps
Finished ==
    [go |-> FALSE, approx |-> approx, oldApprox |-> oldApprox, zeta |-> zeta]

\* a faulty loop head: one iteration too many (<= for <)
HeadCheckFirstOffByOne ==
    IF numSteps <= maxSteps
    THEN Checked(CheckConvergence(eps, TRUE, approx))
    ELSE Finished

\* the head of the loops "while (_numSteps < maxSteps && !checkConvergence(eps, true))"
HeadCheckFirst ==
    IF numSteps < maxSteps
    THEN Checked(CheckConvergence(eps, TRUE, approx))
    ELSE Finished

\* the head of the loops "while (_numSteps < maxSteps) { computeApprox();
\* if (checkConvergence(eps, false)) break; ..."
HeadComputeFirst ==
    IF numSteps < maxSteps
    THEN Checked(CheckConvergence(eps, FALSE, ComputeApprox(W, H)))
    ELSE Finished

\* the H update of factorizeNMFED after the W update wu, with the numerator
\* and the guarded denominator
NMFEDHApply(a, wu, num, denom) ==
    [W |-> [W EXCEPT ![0] = wu.W], H |-> Updated(H, num, denom, R, N),
     approx |-> a, divs |-> wu.divs \cup Elements(denom, R, N)]
NMFEDHUpdate(a, wu, hu) ==
    NMFEDHApply(a, wu, hu.num, FlooredMat(hu.denom, R, N))
NMFEDAfterW(a, wu) == NMFEDHUpdate(a, wu, CalculateNMFEDHUpdate(wu.W, H))

\* one pass of the loop body of factorizeNMFED
FactorizeNMFED(a) == NMFEDAfterW(a, FactorizeNMFEDWUpdate(W[0]))

\* the update of W[p] in factorizeNMDED, on st = [W, approx, divs]: _approx
\* without the old W[p] (a1) and with the new one (w2[p])
NMDEDWCorrect(st, p, a1, denom, w2) ==
    [W |-> w2,
     approx |-> EnsureNonnegativity(MatAdd(a1, ComputeWpH(w2, H, p), M, N),
                                    ENSURE_EPSILON),
     divs |-> st.divs \cup {denom[i][j] : i \in 0..(M - 1), j \in FreeColumns}]

\* a faulty step: the old W[p] * H is not subtracted from _approx
NMDEDWStepNoSubtract(st, p, wUpdateMatrixNum, denom) ==
    NMDEDWCorrect(st, p, st.approx, denom,
                  [st.W EXCEPT ![p] =
                      UpdatedColumns(st.W[p], wUpdateMatrixNum, denom)])

\* one pass of the loop over p of the W update of factorizeNMDED
NMDEDWStep(st, p, wUpdateMatrixNum, denom) ==
    NMDEDWCorrect(st, p, MatSub(st.approx, ComputeWpH(st.W, H, p), M, N), denom,
                  [st.W EXCEPT ![p] =
                      UpdatedColumns(st.W[p], wUpdateMatrixNum, denom)])

\* the W[p] update of factorizeNMDED for p, p+1, ..., _t - 1 in turn, on
\* st = [W, approx, divs]
RECURSIVE NMDEDWLoop(_, _)
NMDEDWLoop(st, p) ==
    IF p >= T THEN st
    ELSE NMDEDWLoop(
             NMDEDWStep(st, p,
                        Gemm(V, H, FALSE, TRUE, M, N - p, R, 0, p, 0, 0),
                        FlooredMat(Gemm(st.approx, H, FALSE, TRUE, M, N - p, R,
                                        0, p, 0, 0), M, R)),
             p + 1)

\* a faulty step: the columns the update for p ignores add the old H to hSum
NMDEDHStepRetains(st, p, hUpdateMatrixNum, denom) ==
    [hSum |-> Mat(R, N, LAMBDA i, j :
                  IF j < N - p
                  THEN Add(st.hSum[i][j],
                           Div(Mul(H[i][j], hUpdateMatrixNum[i][j]), denom[i][j]))
                  ELSE Add(st.hSum[i][j], H[i][j])),
     divs |-> st.divs \cup Elements(denom, R, N - p)]

\* the contribution of W[p] to hSum in factorizeNMDED, on st = [hSum, divs]
NMDEDHStep(st, p, hUpdateMatrixNum, denom) ==
    [hSum |-> Mat(R, N, LAMBDA i, j :
                  IF j < N - p
                  THEN Add(st.hSum[i][j],
                           Div(Mul(H[i][j], hUpdateMatrixNum[i][j]), denom[i][j]))
                  ELSE st.hSum[i][j]),
     divs |-> st.divs \cup Elements(denom, R, N - p)]

\* the accumulation of hSum in factorizeNMDED for p, p+1, ..., _t - 1, on
\* st = [hSum, divs]
RECURSIVE NMDEDHLoop(_, _, _, _)
NMDEDHLoop(st, Wf, a, p) ==
    IF p >= T THEN st
    ELSE NMDEDHLoop(
             NMDEDHStep(st, p,
                        Gemm(Wf[p], V, TRUE, FALSE, R, M, N - p, 0, 0, 0, p),
                        FlooredMat(Gemm(Wf[p], a, TRUE, FALSE, R, M, N - p,
                                        0, 0, 0, p), R, N - p)),
             Wf, a, p + 1)

\* H = hSum / _t, after the W updates wl and the accumulation hl
NMDEDAverage(wl, hl) ==
    [W |-> wl.W,
     H |-> Mat(R, N, LAMBDA i, j : Div(hl.hSum[i][j], Int2Dbl(T))),
     approx |-> wl.approx,
     divs |-> wl.divs \cup hl.divs \cup {Int2Dbl(T)}]
NMDEDAfterW(wl) ==
    NMDEDAverage(wl, NMDEDHLoop([hSum |-> ZeroMat(R, N), divs |-> {}],
                                wl.W, wl.approx, 0))

\* one pass of the loop body of factorizeNMDED, after computeApprox and
\* checkConvergence
FactorizeNMDED(a) ==
    NMDEDAfterW(IF wConstant THEN [W |-> W, approx |-> a, divs |-> {}]
                ELSE NMDEDWLoop([W |-> W, approx |-> a, divs |-> {}], 0))

\* the update of W[p] in factorizeNMDKL, on st = [W, approx, hShifted, divs]:
\* _approx without the old W[p] (a1) and with the new one (w2[p])
NMDKLWCorrect(st, p, a1, hRowSum, w2) ==
    [W |-> w2,
     approx |-> IF T > 1
                THEN EnsureNonnegativity(MatAdd(a1, ComputeWpH(w2, H, p), M, N),
                                         ENSURE_EPSILON)
                ELSE a1,
     hShifted |-> IF T > 1 THEN ShiftColumnsRight(st.hShifted, R, N)
                  ELSE st.hShifted,
     divs |-> st.divs \cup {hRowSum[j] : j \in FreeColumns}]
NMDKLWStep(st, p, wUpdateNum, hRowSum) ==
    NMDKLWCorrect(st, p,
                  IF T > 1 THEN MatSub(st.approx, ComputeWpH(st.W, H, p), M, N)
                  ELSE st.approx,
                  hRowSum,
                  [st.W EXCEPT ![p] = ScaledColumns(st.W[p], wUpdateNum, hRowSum)])

\* the W[p] update of factorizeNMDKL for p, p+1, ..., _t - 1 in turn, on
\* st = [W, approx, hShifted, divs]
RECURSIVE NMDKLWLoop(_, _, _)
NMDKLWLoop(st, vOverApprox, p) ==
    IF p >= T THEN st
    ELSE NMDKLWLoop(
             NMDKLWStep(st, p,
                        MultWithTransposedMatrix(vOverApprox, st.hShifted, M, N, R),
                        Vec(R, LAMBDA j : RowSum(st.hShifted, j, N))),
             vOverApprox, p + 1)

\* if (wpColSums[i] == 0.0) wpColSums[i] = DIVISOR_FLOOR
NonZero(x) == IF Eq0(x) THEN DIVISOR_FLOOR ELSE x

\* the contribution of W[p] to hUpdate in factorizeNMDKL, on st = [hUpdate, divs]
NMDKLHStep(st, p, wpColSums, hUpdateMatrixNum) ==
    [hUpdate |-> Mat(R, N, LAMBDA i, j :
                     IF j < N - p
                     THEN Add(st.hUpdate[i][j],
                              Div(hUpdateMatrixNum[i][j], wpColSums[i]))
                     ELSE st.hUpdate[i][j]),
     divs |-> st.divs \cup Entries(wpColSums, R)]

\* the accumulation of hUpdate in factorizeNMDKL for p, p+1, ..., _t - 1, on
\* st = [hUpdate, divs]
RECURSIVE NMDKLHLoop(_, _, _, _)
NMDKLHLoop(st, Wf, vOverApprox, p) ==
    IF p >= T THEN st
    ELSE NMDKLHLoop(
             NMDKLHStep(st, p,
                        Vec(R, LAMBDA i : NonZero(ColSum(Wf[p], i, M))),
                        Gemm(Wf[p], vOverApprox, TRUE, FALSE, R, M, N - p,
                             0, 0, 0, p)),
             Wf, vOverApprox, p + 1)

\* H *= hUpdate / _t, after the W updates wl, with _approx = a2 and the
\* accumulation hl
NMDKLAverage(a, wl, a2, hl) ==
    [W |-> wl.W,
     H |-> Mat(R, N, LAMBDA i, j :
               Mul(H[i][j], Div(hl.hUpdate[i][j], Int2Dbl(T)))),
     approx |-> a2,
     divs |-> Elements(a, M, N) \cup wl.divs \cup Elements(a2, M, N)
              \cup hl.divs \cup {Int2Dbl(T)}]
NMDKLHUpdate(a, wl, a2) ==
    NMDKLAverage(a, wl, a2,
                 NMDKLHLoop([hUpdate |-> ZeroMat(R, N), divs |-> {}], wl.W,
                            ElementWiseDivision(V, a2, M, N), 0))
NMDKLAfterW(a, wl) ==
    NMDKLHUpdate(a, wl, IF T = 1 THEN ComputeApprox(wl.W, H) ELSE wl.approx)

\* one pass of the loop body of factorizeNMDKL, after computeApprox and
\* checkConvergence
FactorizeNMDKL(a) ==
    NMDKLAfterW(a, IF wConstant THEN [W |-> W, approx |-> a, divs |-> {}]
                   ELSE NMDKLWLoop([W |-> W, approx |-> a, hShifted |-> H,
                                    divs |-> {}],
                                   ElementWiseDivision(V, a, M, N), 0))

\* csplus and csminus of the sparse drivers, and the divisors they take
SparsityTerms(sqrtT, hRowSums, hRowSumSq, hRowLength) ==
    [csplus |-> Vec(R, LAMBDA i : Div(sqrtT, hRowLength[i])),
     csminus |-> Vec(R, LAMBDA i : Div(Mul(sqrtT, hRowSums[i]),
                                       Mul(hRowSumSq[i], hRowLength[i]))),
     divs |-> Entries(hRowLength, R)
              \cup {Mul(hRowSumSq[i], hRowLength[i]) : i \in 0..(R - 1)}]
SparsityOfRows(hRowSumSq) ==
    SparsityTerms(Sqrt(Int2Dbl(N)), Vec(R, LAMBDA i : RowSum(H, i, N)),
                  hRowSumSq, Vec(R, LAMBDA i : Sqrt(hRowSumSq[i])))
SparsityOfH == SparsityOfRows(Vec(R, LAMBDA i : DotRowRow(H, i, H, i, N)))

\* the H update of the sparse drivers after the W update wu, with the
\* sparsity terms cs, the numerator and the guarded denominator
SparseHApply(a, wu, cs, num, denom) ==
    [W |-> [W EXCEPT ![0] = wu.W],
     H |-> Mat(R, N, LAMBDA i, j :
               Mul(H[i][j],
                   Div(Add(num[i][j], Mul(Mul(S[i][j], H[i][j]), cs.csminus[i])),
                       denom[i][j]))),
     approx |-> a,
     divs |-> wu.divs \cup cs.divs \cup Elements(denom, R, N)]

NMFEDSparseHUpdate(a, wu, cs, hu) ==
    SparseHApply(a, wu, cs, hu.num,
                 Mat(R, N, LAMBDA i, j :
                     Floored(Add(hu.denom[i][j], Mul(S[i][j], cs.csplus[i])))))
NMFEDSparseAfterW(a, wu) ==
    NMFEDSparseHUpdate(a, wu, SparsityOfH, CalculateNMFEDHUpdate(wu.W, H))

\* one pass of the loop body of factorizeNMFEDSparse
FactorizeNMFEDSparse(a) == NMFEDSparseAfterW(a, FactorizeNMFEDWUpdate(W[0]))

\* the W update shared by factorizeNMFKLSparse and factorizeNMFKLTempCont:
\* the scaling of the columns, computeApprox(), and the divisors taken (the
\* elements of _approx are the divisors of vOverApprox)
NMFKLWApprox(w2, a2, divs) ==
    [W |-> w2, approx |-> a2, divs |-> divs \cup Elements(a2, M, N)]
NMFKLWApply(a, hRowSums, w2) ==
    NMFKLWApprox(w2, Gemm(w2, H, FALSE, FALSE, M, R, N, 0, 0, 0, 0),
                 Elements(a, M, N) \cup {hRowSums[j] : j \in FreeColumns})
NMFKLWScale(a, wUpdateNum, hRowSums) ==
    NMFKLWApply(a, hRowSums, ScaledColumns(W[0], wUpdateNum, hRowSums))
NMFKLWUpdate(a) ==
    IF wConstant THEN [W |-> W[0], approx |-> a, divs |-> Elements(a, M, N)]
    ELSE NMFKLWScale(a,
                     MultWithTransposedMatrix(ElementWiseDivision(V, a, M, N),
                                              H, M, N, R),
                     Vec(R, LAMBDA i : RowSum(H, i, N)))

NMFKLSparseHUpdate(wu, cs) ==
    SparseHApply(wu.approx, wu, cs,
                 Gemm(wu.W, ElementWiseDivision(V, wu.approx, M, N),
                      TRUE, FALSE, R, M, N, 0, 0, 0, 0),
                 Mat(R, N, LAMBDA i, j :
                     Floored(Add(ColSum(wu.W, i, M),
                                 Mul(S[i][j], cs.csplus[i])))))

\* one pass of the loop body of factorizeNMFKLSparse, after computeApprox and
\* checkConvergence
FactorizeNMFKLSparse(a) == NMFKLSparseHUpdate(NMFKLWUpdate(a), SparsityOfH)

Square(x) == Mul(x, x)

\* ctplus, ctminus1 and ctminus2 of factorizeNMFKLTempCont, and the divisors
\* they take
ContinuityTerms(cols, hRowSumSq) ==
    [ctplus |-> Vec(R, LAMBDA i : Div(Mul(Int2Dbl(4), cols), hRowSumSq[i])),
     ctminus1 |-> Vec(R, LAMBDA i : Div(Mul(Int2Dbl(2), cols), hRowSumSq[i])),
     ctminus2 |-> Vec(R, LAMBDA i :
                      Div(Mul(Mul(Int2Dbl(2), cols),
                              SumOf(N, LAMBDA j :
                                  IF j = 0 THEN Zero
                                  ELSE Square(Sub(H[i][j], H[i][j - 1])))),
                          Square(hRowSumSq[i]))),
     divs |-> Entries(hRowSumSq, R)
              \cup {Square(hRowSumSq[i]) : i \in 0..(R - 1)}]

\* the H update of factorizeNMFKLTempCont after the W update wu; the left
\* neighbour is read from oldH, the copy of H made before the update
TempContHApply(wu, ct, hUpdateMatrixNum, denom) ==
    [W |-> [W EXCEPT ![0] = wu.W],
     H |-> Mat(R, N, LAMBDA i, j :
               Mul(H[i][j],
                   Div(Add(hUpdateMatrixNum[i][j],
                           Mul(C[i][j],
                               Add(Mul(Add(IF j = 0 THEN Zero ELSE H[i][j - 1],
                                           IF j = N - 1 THEN Zero
                                           ELSE H[i][j + 1]),
                                       ct.ctminus1[i]),
                                   Mul(H[i][j], ct.ctminus2[i])))),
                       denom[i][j]))),
     approx |-> wu.approx,
     divs |-> wu.divs \cup ct.divs \cup Elements(denom, R, N)]
TempContHUpdate(wu, ct) ==
    TempContHApply(wu, ct,
                   Gemm(wu.W, ElementWiseDivision(V, wu.approx, M, N),
                        TRUE, FALSE, R, M, N, 0, 0, 0, 0),
                   Mat(R, N, LAMBDA i, j :
                       Floored(Add(ColSum(wu.W, i, M),
                                   Mul(Mul(C[i][j], H[i][j]), ct.ctplus[i])))))

\* one pass of the loop body of factorizeNMFKLTempCont, after computeApprox and
\* checkConvergence
FactorizeNMFKLTempCont(a) ==
    TempContHUpdate(NMFKLWUpdate(a),
                    ContinuityTerms(Int2Dbl(N),
                                    Vec(R, LAMBDA i : DotRowRow(H, i, H, i, N))))

\* A(i, j) + D(j, j) * X(i, j)
DiagSum(A, D, X) ==
    Mat(M, R, LAMBDA i, j : Add(A[i][j], Mul(D[j][j], X[i][j])))

\* the steps of factorizeNMFEDSparseNorm, each adding what it computes to the
\* record st of the values computed before it: the normalization of the
\* columns of W,
SparseNormScale(norm) ==
    [norm |-> norm, wn |-> Mat(M, R, LAMBDA i, j : Div(W[0][i][j], norm[j]))]
SparseNormScaled ==
    SparseNormScale(Vec(R, LAMBDA j : Sqrt(DotColCol(W[0], j, W[0], j, M))))
\* the H update,
SparseNormWtW(st) ==
    st @@ [wTw |-> Gemm(st.wn, st.wn, TRUE, FALSE, R, M, R, 0, 0, 0, 0)]
SparseNormHDenom(st) ==
    st @@ [hDenom |-> FlooredSum(Gemm(st.wTw, H, FALSE, FALSE, R, R, N,
                                      0, 0, 0, 0),
                                 S, R, N)]
SparseNormHUpdate(st) ==
    st @@ [h2 |-> Updated(H, Gemm(st.wn, V, TRUE, FALSE, R, M, N, 0, 0, 0, 0),
                          st.hDenom, R, N)]
\* and the W update
SparseNormHhT(st) ==
    st @@ [hhT |-> MultWithTransposedMatrix(st.h2, st.h2, R, N, R)]
SparseNormWTerms(st) ==
    st @@ [num |-> DiagSum(MultWithTransposedMatrix(V, st.h2, M, N, R),
                           Gemm(st.hhT, st.wTw, FALSE, FALSE, R, R, R,
                                0, 0, 0, 0),
                           st.wn),
           wDenom |-> FlooredMat(
                          DiagSum(Gemm(st.wn, st.hhT, FALSE, FALSE, M, R, R,
                                       0, 0, 0, 0),
                                  Gemm(MultWithTransposedMatrix(st.h2, V, R, N, M),
                                       st.wn, FALSE, FALSE, R, M, R, 0, 0, 0, 0),
                                  st.wn),
                          M, R)]
SparseNormWUpdate(a, st) ==
    [W |-> [W EXCEPT ![0] = UpdatedColumns(st.wn, st.num, st.wDenom)],
     H |-> st.h2, approx |-> a,
     divs |-> Entries(st.norm, R) \cup Elements(st.hDenom, R, N)
              \cup {st.wDenom[i][j] : i \in 0..(M - 1), j \in FreeColumns}]

\* one pass of the loop body of factorizeNMFEDSparseNorm
FactorizeNMFEDSparseNorm(a) ==
    SparseNormWUpdate(a,
        SparseNormWTerms(SparseNormHhT(SparseNormHUpdate(
            SparseNormHDenom(SparseNormWtW(SparseNormScaled))))))

\* hNormRight[q] as normalizeMatrices fills it, from the normalized H
RECURSIVE HNormRight(_, _)
HNormRight(Hn, q) ==
    IF q >= T - 1 THEN Zero
    ELSE Add(IF q = 0 THEN Zero ELSE HNormRight(Hn, q - 1),
             DotColCol(Hn, N - 1 - q, Hn, N - 1 - q, R))

\* the scaling of W by hNorm - hNormRight[p], hn being the normalized H
NormalizeW(Wf, hNorm, hn) ==
    [H |-> hn,
     W |-> [p \in 0..(T - 1) |->
              Mat(M, R, LAMBDA i, j :
                  Mul(Wf[p][i][j], Sub(hNorm, HNormRight(hn, p))))]]
NormalizeH(Wf, Hm, hNorm) ==
    NormalizeW(Wf, hNorm, Mat(R, N, LAMBDA i, j : Div(Hm[i][j], hNorm)))

\* normalizeMatrices(): W and H after it
NormalizeMatrices(Wf, Hm) == NormalizeH(Wf, Hm, FrobeniusNorm(Hm, R, N))

\* a faulty dispatch: KLDivergenceSparse is not rejected for _t > 1
DispatchNoSparseCheck(costFunction) ==
    IF costFunction = "EuclideanDistance"
    THEN [driver |-> IF T = 1 THEN "NMFED" ELSE "NMDED", what |-> None]
    ELSE IF costFunction = "KLDivergence"
    THEN [driver |-> "NMDKL", what |-> None]
    ELSE IF costFunction = "EuclideanDistanceSparse"
    THEN IF T > 1 THEN [driver |-> None, what |-> "Sparse NMD not implemented"]
         ELSE [driver |-> "NMFEDSparse", what |-> None]
    ELSE IF costFunction = "KLDivergenceSparse"
    THEN [driver |-> "NMFKLSparse", what |-> None]
    ELSE IF costFunction = "KLDivergenceContinuous"
    THEN IF T > 1 THEN [driver |-> None, what |-> "Continuous NMD not implemented"]
         ELSE [driver |-> "NMFKLTempCont", what |-> None]
    ELSE IF costFunction = "EuclideanDistanceSparseNormalized"
    THEN IF T > 1 THEN [driver |-> None, what |-> "Sparse NMD not implemented"]
         ELSE [driver |-> "NMFEDSparseNorm", what |-> None]
    ELSE [driver |-> None, what |-> "Invalid cost function"]

\* the driver decompose selects, or the message of the exception it throws
Dispatch(costFunction) ==
    IF costFunction = "EuclideanDistance"
    THEN [driver |-> IF T = 1 THEN "NMFED" ELSE "NMDED", what |-> None]
    ELSE IF costFunction = "KLDivergence"
    THEN [driver |-> "NMDKL", what |-> None]
    ELSE IF costFunction = "EuclideanDistanceSparse"
    THEN IF T > 1 THEN [driver |-> None, what |-> "Sparse NMD not implemented"]
         ELSE [driver |-> "NMFEDSparse", what |-> None]
    ELSE IF costFunction = "KLDivergenceSparse"
    THEN IF T > 1 THEN [driver |-> None, what |-> "Sparse NMD not implemented"]
         ELSE [driver |-> "NMFKLSparse", what |-> None]
    ELSE IF costFunction = "KLDivergenceContinuous"
    THEN IF T > 1 THEN [driver |-> None, what |-> "Continuous NMD not implemented"]
         ELSE [driver |-> "NMFKLTempCont", what |-> None]
    ELSE IF costFunction = "EuclideanDistanceSparseNormalized"
    THEN IF T > 1 THEN [driver |-> None, what |-> "Sparse NMD not implemented"]
         ELSE [driver |-> "NMFEDSparseNorm", what |-> None]
    ELSE [driver |-> None, what |-> "Invalid cost function"]

driver == Dispatch(cf).driver

\* the static matrices of factorizeNMFEDWUpdate and calculateNMFEDHUpdate
\* after an iteration of driver d: a static local is constructed, with the
\* _v.rows() and _h.rows() of the engine that runs, the first time its
\* function is called, and lives on from there
StaticScratch(d) ==
    IF d \in {"NMFED", "NMFEDSparse"} /\ scratch = Null
    THEN [rows |-> M, cols |-> R]
    ELSE scratch

\* the head of the running driver's loop
LoopHead ==
    IF driver \in {"NMFED", "NMFEDSparse", "NMFEDSparseNorm"}
    THEN HeadCheckFirst ELSE HeadComputeFirst

\* one pass of the running driver's loop body
Body(a) ==
    CASE driver = "NMFED" -> FactorizeNMFED(a)
      [] driver = "NMDED" -> FactorizeNMDED(a)
      [] driver = "NMDKL" -> FactorizeNMDKL(a)
      [] driver = "NMFEDSparse" -> FactorizeNMFEDSparse(a)
      [] driver = "NMFKLSparse" -> FactorizeNMFKLSparse(a)
      [] driver = "NMFKLTempCont" -> FactorizeNMFKLTempCont(a)
      [] driver = "NMFEDSparseNorm" -> FactorizeNMFEDSparseNorm(a)

\* ------------------------------------------------------------------------
\* inputs
\* ------------------------------------------------------------------------
\* Matrix::GeneratorFunction: the generators the model draws from
Generate(g, i, j) ==
    CASE g = "unity" -> One
      [] g = "ramp" -> Int2Dbl(i + j)
      [] g = "rows" -> Int2Dbl(i)
      [] g = "eighth" -> Rat(1, 8)
      [] g = "zero" -> Zero
      [] g = "steps" -> Int2Dbl(i + j + 1)
      [] g = "unit" -> IF (i + j) % 2 = 0 THEN Rat(3, 5) ELSE Rat(4, 5)
      [] g = "cols" -> Int2Dbl(j)
GenMat(g, rows, cols) == Mat(rows, cols, LAMBDA i, j : Generate(g, i, j))

VInputs == {GenMat("steps", M, N)}
WGenerators == {"unity", "ramp"}
HGenerators == {"unity", "rows", "eighth"}
EpsInputs == {Zero, Rat(1, 4)}
DelayInputs == {1, 2}
\* generators of a W and an H for an engine constructed on V = W * H; the
\* columns of a 2-row "unit" W have Euclidean norm 1
ExactWGenerators == {"unity", "unit"}
ExactHGenerators == {"steps"}
\* the cost functions a caller passes: every enumerator and an invalid value;
\* a caller that decomposes repeatedly alternates between two of them
CfInputs ==
    IF plan = 1 THEN CostFunctions \cup {"Invalid"}
    ELSE {"EuclideanDistance", "KLDivergenceSparse"}

\* ------------------------------------------------------------------------
\* the state after construction, and the operations
\* ------------------------------------------------------------------------
Constructed(vIn, tIn, wGenerator, hGenerator) ==
    /\ V = vIn
    /\ T = tIn
    /\ W = [p \in 0..(tIn - 1) |-> GenMat(wGenerator, M, R)]
    /\ H = GenMat(hGenerator, R, N)
    /\ S = GenMat("zero", R, N)
    /\ C = GenMat("zero", R, N)
    /\ approx = GenMat("zero", M, N)
    /\ oldApprox = Null
    /\ wConstant = FALSE
    /\ wColConstant = [j \in 0..(R - 1) |-> FALSE]
    /\ normalizeMatrices = FALSE
    /\ numSteps = 0
    /\ absoluteError = Int2Dbl(-1)
    /\ relativeError = Int2Dbl(-1)
    /\ vFrob = FrobeniusNorm(vIn, M, N)
    /\ notificationDelay = 25

Init ==
    /\ \/ /\ plan = 1
          /\ \E vIn \in VInputs, tIn \in 1..MaxT,
                wg \in WGenerators, hg \in HGenerators :
                 Constructed(vIn, tIn, wg, hg)
       \/ /\ plan = MaxCalls
          /\ \E tIn \in 1..MaxT :
                 Constructed(GenMat("steps", M, N), tIn, "unity", "unity")
       \/ /\ plan = 1
          /\ \E wg \in ExactWGenerators, hg \in ExactHGenerators :
                 Constructed(Gemm(GenMat(wg, M, R), GenMat(hg, R, N),
                                  FALSE, FALSE, M, R, N, 0, 0, 0, 0),
                             1, wg, hg)
       \/ /\ plan = 1
          /\ Constructed(GenMat("steps", M, N), MaxT, "unity", "cols")
    /\ pc = "idle"
    /\ cf = None /\ maxSteps = 0 /\ eps = Zero /\ observer = FALSE
    /\ progress = <<>>
    /\ error = None
    /\ zeta = Null
    /\ divisors = {}
    /\ wEntry = W /\ hEntry = H
    /\ calls = 0
    /\ scratch = Null

\* how many of the settings differ from the constructor's
Bit(b) == IF b THEN 1 ELSE 0
RECURSIVE CountConstant(_, _)
CountConstant(f, j) == IF j < 0 THEN 0 ELSE Bit(f[j]) + CountConstant(f, j - 1)
Changes(wc, wcc, nm, nd, sm, cm) ==
    Bit(wc) + CountConstant(wcc, R - 1) + Bit(nm) + Bit(nd # 25)
    + Bit(sm # GenMat("zero", R, N)) + Bit(cm # GenMat("zero", R, N))

\* the setters are called before the first decompose, and change at most
\* MaxSetup settings
Setter == pc = "idle" /\ calls = 0 /\ plan = 1

SetWConstant(b) ==
    /\ Setter
    /\ wConstant' = b
    /\ UNCHANGED <<V, W, H, S, C, approx, oldApprox, wColConstant,
                   normalizeMatrices, T, numSteps, absoluteError, relativeError,
                   vFrob, notificationDelay, call, scratch>>
    /\ Changes(wConstant', wColConstant', normalizeMatrices',
               notificationDelay', S', C') <= MaxSetup

SetWColConstant(j, b) ==
    /\ Setter
    /\ wColConstant' = [wColConstant EXCEPT ![j] = b]
    /\ UNCHANGED <<V, W, H, S, C, approx, oldApprox, wConstant,
                   normalizeMatrices, T, numSteps, absoluteError, relativeError,
                   vFrob, notificationDelay, call, scratch>>
    /\ Changes(wConstant', wColConstant', normalizeMatrices',
               notificationDelay', S', C') <= MaxSetup

SetNormalizeMatrices(b) ==
    /\ Setter
    /\ normalizeMatrices' = b
    /\ UNCHANGED <<V, W, H, S, C, approx, oldApprox, wConstant, wColConstant,
                   T, numSteps, absoluteError, relativeError,
                   vFrob, notificationDelay, call, scratch>>
    /\ Changes(wConstant', wColConstant', normalizeMatrices',
               notificationDelay', S', C') <= MaxSetup

SetNotificationDelay(n) ==
    /\ Setter
    /\ notificationDelay' = n
    /\ UNCHANGED <<V, W, H, S, C, approx, oldApprox, wConstant, wColConstant,
                   normalizeMatrices, T, numSteps, absoluteError, relativeError,
                   vFrob, call, scratch>>
    /\ Changes(wConstant', wColConstant', normalizeMatrices',
               notificationDelay', S', C') <= MaxSetup

SetSparsity(m) ==
    /\ Setter
    /\ S' = m
    /\ UNCHANGED <<V, W, H, C, approx, oldApprox, wConstant, wColConstant,
                   normalizeMatrices, T, numSteps, absoluteError, relativeError,
                   vFrob, notificationDelay, call, scratch>>
    /\ Changes(wConstant', wColConstant', normalizeMatrices',
               notificationDelay', S', C') <= MaxSetup

SetContinuity(m) ==
    /\ Setter
    /\ C' = m
    /\ UNCHANGED <<V, W, H, S, approx, oldApprox, wConstant, wColConstant,
                   normalizeMatrices, T, numSteps, absoluteError, relativeError,
                   vFrob, notificationDelay, call, scratch>>
    /\ Changes(wConstant', wColConstant', normalizeMatrices',
               notificationDelay', S', C') <= MaxSetup

\* decompose(cf, maxSteps, eps, observer) up to the driver's loop: the dispatch,
\* the exception for an unsupported or invalid cost function, _numSteps = 0
Decompose(costFunction, maxS, e, obs) ==
    /\ pc = "idle"
    /\ calls < plan
    /\ calls' = calls + 1
    /\ \E d \in {Dispatch(costFunction)} :
           IF d.driver = None
           THEN /\ error' = d.what
                /\ cf' = costFunction
                /\ progress' = <<>>
                /\ UNCHANGED <<engine, pc, maxSteps, eps, observer,
                               zeta, divisors, wEntry, hEntry, plan, scratch>>
           ELSE /\ error' = None
                /\ pc' = "loop"
                /\ cf' = costFunction
                /\ maxSteps' = maxS
                /\ eps' = e
                /\ observer' = obs
                /\ numSteps' = 0
                /\ progress' = <<>>
                /\ zeta' = Null
                /\ divisors' = {}
                /\ wEntry' = W
                /\ hEntry' = H
                /\ UNCHANGED <<V, W, H, S, C, approx, oldApprox, wConstant,
                               wColConstant, normalizeMatrices, T, absoluteError,
                               relativeError, vFrob, notificationDelay, plan,
                               scratch>>

\* one iteration of the running driver: the loop head, the body, nextItStep
Iterate ==
    /\ pc = "loop"
    /\ \E hd \in {LoopHead} :
           /\ hd.go
           /\ \E b \in {Body(hd.approx)}, n \in {NextItStep(observer, maxSteps)} :
                  /\ W' = b.W
                  /\ H' = b.H
                  /\ approx' = b.approx
                  /\ divisors' = b.divs
                  /\ numSteps' = n.numSteps
                  /\ progress' = n.progress
           /\ oldApprox' = hd.oldApprox
           /\ zeta' = hd.zeta
    /\ scratch' = StaticScratch(driver)
    /\ UNCHANGED <<V, S, C, wConstant, wColConstant, normalizeMatrices, T,
                   absoluteError, relativeError, vFrob, notificationDelay,
                   pc, cf, maxSteps, eps, observer, error, wEntry, hEntry,
                   calls, plan>>

\* a faulty end of decompose: it also computes the errors
ReturnComputesError ==
    /\ pc = "loop"
    /\ \E hd \in {LoopHead} :
           /\ ~hd.go
           /\ approx' = hd.approx
           /\ zeta' = hd.zeta
    /\ IF normalizeMatrices
       THEN \E nm \in {NormalizeMatrices(W, H)} : W' = nm.W /\ H' = nm.H
       ELSE UNCHANGED <<W, H>>
    /\ \E a \in {FrobeniusNorm(MatSub(approx', V, M, N), M, N)} :
           /\ absoluteError' = a
           /\ relativeError' = Div(a, vFrob)
    /\ progress' = IF observer THEN Append(progress, One) ELSE progress
    /\ oldApprox' = Null
    /\ pc' = "idle"
    /\ UNCHANGED <<V, S, C, wConstant, wColConstant, normalizeMatrices, T,
                   numSteps, vFrob,
                   notificationDelay, cf, maxSteps, eps, observer, error,
                   divisors, wEntry, hEntry, calls, plan, scratch>>

\* a faulty end of decompose: _oldApprox is not released
ReturnKeepsOldApprox ==
    /\ pc = "loop"
    /\ \E hd \in {LoopHead} :
           /\ ~hd.go
           /\ approx' = hd.approx
           /\ zeta' = hd.zeta
           /\ oldApprox' = hd.oldApprox
    /\ IF normalizeMatrices
       THEN \E nm \in {NormalizeMatrices(W, H)} : W' = nm.W /\ H' = nm.H
       ELSE UNCHANGED <<W, H>>
    /\ progress' = IF observer THEN Append(progress, One) ELSE progress
    /\ pc' = "idle"
    /\ UNCHANGED <<V, S, C, wConstant, wColConstant, normalizeMatrices, T,
                   numSteps, absoluteError, relativeError, vFrob,
                   notificationDelay, cf, maxSteps, eps, observer, error,
                   divisors, wEntry, hEntry, calls, plan, scratch>>

\* the driver's loop ends (maxSteps reached, or converged) and decompose
\* finishes: normalizeMatrices, progressChanged(1.0f), delete _oldApprox
Return ==
    /\ pc = "loop"
    /\ \E hd \in {LoopHead} :
           /\ ~hd.go
           /\ approx' = hd.approx
           /\ zeta' = hd.zeta
    /\ IF normalizeMatrices
       THEN \E nm \in {NormalizeMatrices(W, H)} : W' = nm.W /\ H' = nm.H
       ELSE UNCHANGED <<W, H>>
    /\ progress' = IF observer THEN Append(progress, One) ELSE progress
    /\ oldApprox' = Null
    /\ pc' = "idle"
    /\ UNCHANGED <<V, S, C, wConstant, wColConstant, normalizeMatrices, T,
                   numSteps, absoluteError, relativeError, vFrob,
                   notificationDelay, cf, maxSteps, eps, observer, error,
                   divisors, wEntry, hEntry, calls, plan, scratch>>

\* computeError()
ComputeError ==
    /\ pc = "idle"
    /\ calls = plan
    /\ \E a \in {FrobeniusNorm(MatSub(approx, V, M, N), M, N)} :
           /\ absoluteError' = a
           /\ relativeError' = Div(a, vFrob)
    /\ UNCHANGED <<V, W, H, S, C, approx, oldApprox, wConstant, wColConstant,
                   normalizeMatrices, T, numSteps, vFrob, notificationDelay,
                   call, scratch>>

Next ==
    \/ \E b \in BOOLEAN : SetWConstant(b)
    \/ \E j \in 0..(R - 1), b \in BOOLEAN : SetWColConstant(j, b)
    \/ \E b \in BOOLEAN : SetNormalizeMatrices(b)
    \/ \E n \in DelayInputs : SetNotificationDelay(n)
    \/ SetSparsity(GenMat("unity", R, N))
    \/ SetContinuity(GenMat("unity", R, N))
    \/ \E k \in CfInputs, ms \in 0..MaxSteps, e \in EpsInputs, obs \in BOOLEAN :
           Decompose(k, ms, e, obs)
    \/ Iterate
    \/ Return
    \/ ComputeError

Spec == Init /\ [][Next]_vars

\* ------------------------------------------------------------------------
\* properties of the engine
\* ------------------------------------------------------------------------
\* C1 (as the specification states it): when w_constant is true decompose
\* writes no element of any W^p: during and after every decompose call that
\* ran a driver, every W^p is what it was when the call was made.
C1_WConstantFrame ==
    (wConstant /\ calls >= 1 /\ error = None) => W = wEntry

\* C2 (as the specification states it): when w_col_constant[j] is true and
\* w_constant is false, column j of every W^p is after every iteration what
\* it was before the first one.
C2_ColumnFrozen ==
    (pc = "loop" /\ ~wConstant) =>
        \A j \in 0..(R - 1) :
            wColConstant[j] =>
                \A p \in 0..(T - 1), i \in 0..(M - 1) :
                    W[p][i][j] = wEntry[p][i][j]

\* C3 (as the specification states it): after every full iteration, and when
\* decompose returns, the stored reconstruction _approx is the sum over p of
\* W^p times H shifted p columns, of the current W and H (here: every element
\* within one percent of it).
C3_ApproxCurrent ==
    (calls >= 1 /\ error = None /\ numSteps >= 1) =>
        LET current == ComputeApprox(W, H)
            mag(x) == IF x[1] < 0 THEN Neg(x) ELSE x
            near(x, y) ==
                \/ x = y
                \/ /\ IsFinite(x) /\ IsFinite(y)
                   /\ Le0(Sub(Mul(Int2Dbl(100), mag(Sub(x, y))),
                              Add(mag(x), mag(y))))
        IN  \A i \in 0..(M - 1), j \in 0..(N - 1) :
                near(approx[i][j], current[i][j])

\* C4 (as the specification states it): every divisor of a division made in
\* a W or H update is greater than 0.
C4_DivisorsPositive ==
    \A d \in divisors : Gt0(d)

\* C5: decompose returns with _numSteps < maxSteps only if eps > 0 and the
\* last convergence check computed a zeta with zeta < eps; in every other
\* case the driver made exactly maxSteps iterations.
C5_EarlyReturnOnlyConverged ==
    (pc = "idle" /\ calls >= 1 /\ error = None) =>
        /\ numSteps <= maxSteps
        /\ numSteps < maxSteps => (Gt0(eps) /\ zeta # Null /\ Lt(zeta, eps))

\* C5, its case: a call returned before maxSteps, after at least one iteration
C5_ConvergedEarly ==
    /\ pc = "idle" /\ calls >= 1 /\ error = None
    /\ numSteps >= 1 /\ numSteps < maxSteps

\* C6 (as the specification states it): a successful decompose call with an
\* observer and maxSteps >= 1 calls progressChanged with 1.0 exactly once,
\* and every other call of it follows an iteration whose step count is a
\* multiple of the notification delay.
C6_OneExactlyOnce ==
    (pc = "idle" /\ calls >= 1 /\ error = None /\ observer /\ maxSteps >= 1) =>
        /\ Cardinality({i \in 1..Len(progress) : progress[i] = One}) = 1
        /\ \A i \in 1..Len(progress) :
               progress[i] # One =>
                   \E k \in 1..numSteps :
                       /\ k % notificationDelay = 0
                       /\ progress[i] = Div(Int2Dbl(k), Int2Dbl(maxSteps))

\* C6 (amended): in a decompose call with an observer, the observer has
\* received one value _numSteps / maxSteps for each iteration so far whose
\* step count is a multiple of the notification delay, in order, and after
\* them, once decompose has returned, the value 1.0 once more; so 1.0 is
\* received twice when the driver ran to maxSteps >= 1 and maxSteps is a
\* multiple of the notification delay, and once otherwise.
C6_CompletionOnce ==
    (calls >= 1 /\ error = None /\ observer) =>
        LET strides == {k \in 1..numSteps : k % notificationDelay = 0}
            sent == Len(progress) - Bit(pc = "idle")
        IN  /\ sent = Cardinality(strides)
            /\ \A k \in strides :
                   progress[Cardinality({l \in strides : l <= k})]
                       = Div(Int2Dbl(k), Int2Dbl(maxSteps))
            /\ pc = "idle" =>
                   /\ progress[Len(progress)] = One
                   /\ Cardinality({i \in 1..Len(progress) : progress[i] = One})
                          = 1 + Bit(/\ numSteps >= 1
                                    /\ numSteps = maxSteps
                                    /\ maxSteps % notificationDelay = 0)

\* C6, its case: decompose returned and the observer received 1.0 twice
C6_OneTwice ==
    /\ pc = "idle" /\ calls >= 1 /\ error = None /\ observer
    /\ Len(progress) >= 2
    /\ progress[Len(progress) - 1] = One
    /\ progress[Len(progress)] = One

\* C7: within one decompose call the fractions the observer receives are
\* non-decreasing and lie in [0, 1], and the last one, once decompose has
\* returned, is 1.0; without an observer nothing is received, and the step
\* count advances as it does with one.
C7_ProgressFractions ==
    [][/\ \A i \in 1..Len(progress') :
              Ge0(progress'[i]) /\ Ge0(Sub(One, progress'[i]))
       /\ \A i \in 1..(Len(progress') - 1) :
              ~Lt(progress'[i + 1], progress'[i])
       /\ (pc' = "idle" /\ calls' >= 1 /\ error' = None /\ observer') =>
              (Len(progress') >= 1 /\ progress'[Len(progress')] = One)
       /\ ~observer' => progress' = <<>>
       /\ (pc = "loop" /\ pc' = "loop") =>
              numSteps' = NextItStep(~observer, maxSteps).numSteps
       /\ (pc = "loop" /\ pc' = "idle") => numSteps' = numSteps
      ]_vars

\* C7, its case: the observer received a fraction below 1.0 and then 1.0
C7_FractionsRise ==
    /\ pc = "idle" /\ calls >= 1 /\ error = None /\ observer
    /\ Len(progress) >= 2
    /\ Lt(progress[1], progress[Len(progress)])

\* C8 (as the specification states it): the step counter never decreases
\* over the lifetime of the engine, successive decompose calls included.
C8_NeverDecreases ==
    [][numSteps' >= numSteps]_vars

\* C8 (amended): a driver sets the step counter to 0 when it starts; from
\* there to the return of decompose the counter never decreases, it grows by
\* exactly 1 with every completed iteration, and it is at most maxSteps when
\* decompose returns; between the calls it keeps its value.
C8_StepsWithinCall ==
    [][/\ (pc = "idle" /\ pc' = "loop") => numSteps' = 0
       /\ (pc = "loop" /\ pc' = "loop") => numSteps' = numSteps + 1
       /\ (pc = "loop" /\ pc' = "idle") =>
              (numSteps' = numSteps /\ numSteps' <= maxSteps)
       /\ (pc = "idle" /\ pc' = "idle") => numSteps' = numSteps
      ]_vars

\* C8, its case: a later decompose call counted its iterations from 0 again
C8_CountedAgain ==
    /\ calls >= 2 /\ pc = "loop" /\ numSteps = 1 /\ maxSteps > 1

\* C9: decompose with a sparse, continuous or normalized cost function on an
\* engine with _t > 1 throws the exception "... NMD not implemented", which
\* is not the "Invalid cost function" of an unrecognized cost function, and
\* leaves the engine as it was: _numSteps, W, H, _approx and _oldApprox are
\* unchanged, no normalization is run, the observer receives nothing.
C9_UnsupportedRejected ==
    [][(calls' = calls + 1) =>
          /\ (T > 1 /\ cf' \in {"EuclideanDistanceSparse", "KLDivergenceSparse",
                                "KLDivergenceContinuous",
                                "EuclideanDistanceSparseNormalized"}) =>
                 /\ error' \in {"Sparse NMD not implemented",
                                "Continuous NMD not implemented"}
                 /\ pc' = "idle"
                 /\ UNCHANGED engine
                 /\ progress' = <<>>
          /\ (cf' \notin CostFunctions) =>
                 /\ error' = "Invalid cost function"
                 /\ UNCHANGED engine
      ]_vars

\* C9, its case: a sparse decomposition was rejected on an engine with
\* _t > 1 that an earlier call had iterated
C9_RejectedAfterRun ==
    /\ T > 1 /\ cf = "KLDivergenceSparse"
    /\ error = "Sparse NMD not implemented"
    /\ calls >= 2 /\ numSteps >= 1

\* C10 (as the specification states it, for an engine whose H was positive
\* when decompose was called): every element of every W^p, of H and of
\* _approx is >= 0 at all times, after the normalization of decompose too.
C10_Nonnegative ==
    (\A i \in 0..(R - 1), j \in 0..(N - 1) : Gt0(hEntry[i][j])) =>
        /\ \A p \in 0..(T - 1), i \in 0..(M - 1), j \in 0..(R - 1) :
               Ge0(W[p][i][j])
        /\ \A i \in 0..(R - 1), j \in 0..(N - 1) : Ge0(H[i][j])
        /\ \A i \in 0..(M - 1), j \in 0..(N - 1) : Ge0(approx[i][j])

\* C11 (as the specification states it): normalizeMatrices multiplies every
\* element of W^p by h - hNormRight[p], h being the Frobenius norm of H before
\* the division, hNormRight[0] = 0 and, for 1 <= p < _t, hNormRight[p] the sum
\* of the squared norms of the p rightmost columns of the divided H.
C11_NormalizeScalesW ==
    [][(pc = "loop" /\ pc' = "idle" /\ normalizeMatrices) =>
          LET h == FrobeniusNorm(H, R, N)
              hRight(p) ==
                  SumFn([k \in 1..p |-> DotColCol(H', N - k, H', N - k, R)], 1, p)
          IN  /\ \A i \in 0..(R - 1), j \in 0..(N - 1) :
                     H'[i][j] = Div(H[i][j], h)
              /\ \A p \in 0..(T - 1), i \in 0..(M - 1), j \in 0..(R - 1) :
                     W'[p][i][j] = Mul(W[p][i][j], Sub(h, hRight(p)))
      ]_vars

\* C12 (as the specification states it): for _t = 1, S = 0, C = 0 and each
\* of the six cost functions, the iterations of a decompose call that started
\* from positive W and H with V = W * H leave W and H unchanged.
C12_FixedPoint ==
    (/\ pc = "loop" /\ numSteps >= 1 /\ T = 1
     /\ S = GenMat("zero", R, N) /\ C = GenMat("zero", R, N)
     /\ V = ComputeApprox(wEntry, hEntry)
     /\ \A i \in 0..(M - 1), j \in 0..(R - 1) : Gt0(wEntry[0][i][j])
     /\ \A i \in 0..(R - 1), j \in 0..(N - 1) : Gt0(hEntry[i][j]))
    => (W = wEntry /\ H = hEntry)

\* C12 (amended): the same for the five cost functions other than
\* EuclideanDistanceSparseNormalized, and for EuclideanDistanceSparseNormalized
\* when every column of W has Euclidean norm 1.
C12_FixedPointUnitColumns ==
    (/\ pc = "loop" /\ numSteps >= 1 /\ T = 1
     /\ S = GenMat("zero", R, N) /\ C = GenMat("zero", R, N)
     /\ V = ComputeApprox(wEntry, hEntry)
     /\ \A i \in 0..(M - 1), j \in 0..(R - 1) : Gt0(wEntry[0][i][j])
     /\ \A i \in 0..(R - 1), j \in 0..(N - 1) : Gt0(hEntry[i][j])
     /\ (cf = "EuclideanDistanceSparseNormalized" =>
            \A j \in 0..(R - 1) :
                Sqrt(DotColCol(wEntry[0], j, wEntry[0], j, M)) = One))
    => (W = wEntry /\ H = hEntry)

\* C12, its case: the normalized-basis driver iterated from an exact pair
\* with columns of norm 1 and left W and H as they were
C12_NormalizedKept ==
    /\ pc = "loop" /\ numSteps >= 1 /\ T = 1
    /\ cf = "EuclideanDistanceSparseNormalized"
    /\ S = GenMat("zero", R, N) /\ C = GenMat("zero", R, N)
    /\ V = ComputeApprox(wEntry, hEntry)
    /\ \A i \in 0..(M - 1), j \in 0..(R - 1) : Gt0(wEntry[0][i][j])
    /\ \A i \in 0..(R - 1), j \in 0..(N - 1) : Gt0(hEntry[i][j])
    /\ ~wConstant /\ \A j \in 0..(R - 1) : ~wColConstant[j]
    /\ W = wEntry /\ H = hEntry

C14_OldApproxReleased ==
    /\ pc = "idle" => oldApprox = Null
    /\ oldApprox # Null => (pc = "loop" /\ Gt0(eps) /\ numSteps >= 1)
    /\ (pc = "loop" /\ numSteps = 0) =>
           /\ oldApprox = Null
           /\ maxSteps >= 1 => LoopHead.go
    /\ (pc = "idle" /\ calls >= 1 /\ error = None /\ maxSteps >= 1) =>
           numSteps >= 1

\* C14, its case: the second decompose call on an engine, with eps > 0, has
\* iterated and holds a snapshot of its own
C14_SecondCallSnapshot ==
    /\ calls >= 2 /\ pc = "loop" /\ Gt0(eps)
    /\ numSteps >= 1 /\ oldApprox # Null

\* C15 (as the specification states it): every scratch matrix of a driver
\* belongs to the driver invocation: it has the dimensions of the engine
\* that runs and is released when the driver returns, so between the
\* decompose calls there is none.
C15_ScratchOwned ==
    /\ scratch # Null => scratch = [rows |-> M, cols |-> R]
    /\ pc = "idle" => scratch = Null

\* C16: in factorizeNMDED, and in factorizeNMDKL with _t > 1, with
\* _wConstant false, the difference-based update of the W[p] (subtract the
\* old W[p] * H, update W[p], add the new W[p] * H, ensureNonnegativity)
\* leaves _approx, at the end of the pass over p, equal to the sum over p of
\* the updated W[p] times the H of before the H update, shifted p columns,
\* with every element <= 0 replaced by epsilon (here: every element within
\* one percent of it, the two being rounded differently).
C16_DifferenceUpdate ==
    [][(/\ pc = "loop" /\ pc' = "loop" /\ ~wConstant /\ T > 1
        /\ driver \in {"NMDED", "NMDKL"}) =>
           \A full \in {EnsureNonnegativity(ComputeApprox(W', H),
                                             ENSURE_EPSILON)} :
               \A i \in 0..(M - 1), j \in 0..(N - 1) :
                   \A x \in {approx'[i][j]}, y \in {full[i][j]} :
                       \/ x = y
                       \/ /\ IsFinite(x) /\ IsFinite(y)
                          /\ \A diff \in {Sub(x, y)} :
                                 Le0(Sub(Mul(Int2Dbl(100), <<Abs(diff[1]), diff[2], diff[3]>>),
                                         Add(<<Abs(x[1]), x[2], x[3]>>,
                                             <<Abs(y[1]), y[2], y[3]>>)))
      ]_vars

\* C16, its case: the first iteration of a convolutive driver has updated W
\* and left a finite _approx that is the reconstruction from the new W and
\* the old H, with an element replaced by epsilon
C16_Rebuilt ==
    /\ pc = "loop" /\ numSteps = 1 /\ ~wConstant /\ T > 1
    /\ driver \in {"NMDED", "NMDKL"}
    /\ W # wEntry
    /\ H # hEntry
    /\ \A i \in 0..(M - 1), j \in 0..(N - 1) : IsFinite(approx[i][j])
    /\ approx = EnsureNonnegativity(ComputeApprox(W, hEntry), ENSURE_EPSILON)
    /\ approx # ComputeApprox(W, hEntry)
    /\ approx # ComputeApprox(wEntry, hEntry)

\* C17 (as the specification states it): in the H update of factorizeNMDED
\* the update for the shift p writes the columns 0..N-p-1 only, and after
\* H = hSum / _t every H(i, j) is the average of _t terms: the p-th
\* multiplicative update of H(i, j) for each p with j <= N-p-1 and the old
\* H(i, j) for each p with j > N-p-1.
C17_AverageRetainsOld ==
    [][(pc = "loop" /\ pc' = "loop" /\ driver = "NMDED") =>
           \A num \in {[p \in 0..(T - 1) |->
                           Gemm(W'[p], V, TRUE, FALSE, R, M, N - p, 0, 0, 0, p)]},
              denom \in {[p \in 0..(T - 1) |->
                             FlooredMat(Gemm(W'[p], approx', TRUE, FALSE,
                                             R, M, N - p, 0, 0, 0, p),
                                        R, N - p)]} :
               \A i \in 0..(R - 1), j \in 0..(N - 1) :
                   \A terms \in {[p \in 0..(T - 1) |->
                                     IF j <= N - p - 1
                                     THEN Div(Mul(H[i][j], num[p][i][j]),
                                              denom[p][i][j])
                                     ELSE H[i][j]]} :
                       H'[i][j] = Div(SumFn(terms, 0, T - 1), Int2Dbl(T))
      ]_vars

\* C17 (amended): after H = hSum / _t every H(i, j) is the sum of the p-th
\* multiplicative updates of H(i, j) over the p with j <= N-p-1, divided by
\* _t; a shift p with j > N-p-1 adds nothing, so the last column holds the
\* update for p = 0 divided by _t.
C17_AverageOfWritten ==
    [][(pc = "loop" /\ pc' = "loop" /\ driver = "NMDED") =>
           \A num \in {[p \in 0..(T - 1) |->
                           Gemm(W'[p], V, TRUE, FALSE, R, M, N - p, 0, 0, 0, p)]},
              denom \in {[p \in 0..(T - 1) |->
                             FlooredMat(Gemm(W'[p], approx', TRUE, FALSE,
                                             R, M, N - p, 0, 0, 0, p),
                                        R, N - p)]} :
               /\ \A i \in 0..(R - 1), j \in 0..(N - 1) :
                      \A terms \in {[p \in {q \in 0..(T - 1) : j <= N - q - 1} |->
                                        Div(Mul(H[i][j], num[p][i][j]),
                                            denom[p][i][j])]} :
                          H'[i][j] =
                              Div(SumFn(terms, 0, Cardinality(DOMAIN terms) - 1),
                                  Int2Dbl(T))
               /\ \A i \in 0..(R - 1) :
                      \A first \in {Div(Mul(H[i][N - 1], num[0][i][N - 1]),
                                        denom[0][i][N - 1])} :
                          H'[i][N - 1] = Div(Add(Zero, first), Int2Dbl(T))
      ]_vars

\* C17, its case: factorizeNMDED has iterated on an H with a positive last
\* column, and the last column is still positive
C17_LastColumnUpdated ==
    /\ pc = "loop" /\ driver = "NMDED" /\ numSteps = 1 /\ T > 1
    /\ \A i \in 0..(R - 1) :
           /\ Gt0(hEntry[i][N - 1])
           /\ IsFinite(H[i][N - 1]) /\ Gt0(H[i][N - 1])
           /\ H[i][N - 1] # hEntry[i][N - 1]
====
